---------------------------- MODULE Spec2Model ----------------------------
(***************************************************************************)
(* A model of the tile-grid game of ww.py: the Stage with its list of      *)
(* Actors (KeyboardPlayer, Monster, Box, sticky, Wall), the move-request   *)
(* protocol Actor.move and its overrides, and Stage.step iterating over    *)
(* the live list.  Entities are numbered 1..n in the order in which the    *)
(* world setup adds them; None is 0.                                       *)
(***************************************************************************)
EXTENDS Integers, Sequences, FiniteSets

(***************************************************************************)
(* Bounds of the model.                                                    *)
(***************************************************************************)
GridW == 5
GridH == 3
MaxTicks == 3
\* the number of Boxes the world setup places (100 in wwgame.py)
NumBoxes == 2

(***************************************************************************)
(* Program constants.                                                      *)
(***************************************************************************)
None == 0

K_s == 115
K_w == 119
K_d == 100
K_a == 97
K_q == 113
K_e == 101
K_c == 99
K_z == 122
\* a key that KeyboardPlayer.step does not map to a direction
K_x == 120

Keys == {K_s, K_w, K_d, K_a, K_q, K_e, K_c, K_z, K_x}

\* Actor.__init__: the default delay of an Actor
DefaultDelay == 5

VARIABLES
    setup,       \* the world setup: the Actors in the order in which they were added
    player,      \* Stage._player: the entity set_player stored, None after remove_player
    attr_fault,  \* Stage.player_event raised AttributeError (no player)
    kind,        \* kind[i]: the class of entity i (fixed at setup)
    delay,       \* delay[i]: Actor._delay (fixed at setup)
    actors,      \* Stage._actors: the live list, in insertion order
    pos,         \* pos[i] = <<Actor._x, Actor._y>>
    hd,          \* hd[i] = <<Monster._dx, Monster._dy>>
    dcount,      \* dcount[i]: Actor._delay_count
    stuck,       \* stuck[i]: the attribute inside_sticky of entity i
    last_event,  \* KeyboardPlayer._last_event
    pdead,       \* the player's attribute is_dead has been set to True
    cdead,       \* the class attribute Actor.is_dead has been overwritten with True
    fault,       \* Stage.remove_actor raised ValueError (not in list)
    pc,          \* "idle" between ticks, "stepping" inside Stage.step
    it,          \* the list iterator's index inside Stage.step (0-based)
    tick,        \* number of Stage.step calls started
    recent,      \* <<previous key, last key>> received since the player's last step
    log,         \* entities whose step ran in the current (last) Stage.step
    tick0,       \* the world when the current (last) Stage.step began
    pre,         \* the world before the last entity step
    cur,         \* the entity whose step ran last (None before any)
    reqs,        \* the move-requests made during the last entity step
    traps        \* <<sticky, roamer>> pairs: sticky.move found the roamer at its destination

vars == <<setup, player, attr_fault, kind, delay, actors, pos, hd, dcount, stuck, last_event, pdead, cdead, fault,
          pc, it, tick, recent, log, tick0, pre, cur, reqs, traps>>

(***************************************************************************)
(* World setup (wwgame.py): a layout is the sequence of Actors added to    *)
(* the Stage, in order.                                                    *)
(***************************************************************************)
E(k, x, y, d) == [k |-> k, x |-> x, y |-> y, d |-> d]
P(x, y) == E("player", x, y, DefaultDelay)
M(x, y, d) == E("monster", x, y, d)
B(x, y) == E("box", x, y, DefaultDelay)
S(x, y) == E("sticky", x, y, DefaultDelay)
Wl(x, y) == E("wall", x, y, DefaultDelay)

\* the 8 cells around (1,1), in the order of Monster.is_dead
Ring == <<Wl(2,1), Wl(0,1), Wl(1,2), Wl(1,0), Wl(2,2), Wl(0,0), Wl(2,0), Wl(0,2)>>

RingWithout(x, y) == SelectSeq(Ring, LAMBDA e : <<e.x, e.y>> # <<x, y>>)

(***************************************************************************)
(* The placement of wwgame.py, on the grid of the model: the player at the *)
(* origin, three Monsters of delays 5, 3 and 2, the last of them one row   *)
(* below the grid, the four stickies, and then NumBoxes times a Box at a   *)
(* random cell that get_actor finds empty, each followed by the same six   *)
(* Walls again.  On the first turn of the loop the cells of the Walls are  *)
(* still empty, so the first Box may lie under the Walls of a cell.        *)
(***************************************************************************)
GameStart ==
    <<P(0,0), M(3,1,5), M(0,2,3), M(1,GridH,2), S(1,1), S(1,2), S(0,1), S(4,0)>>

\* the Walls that every turn of the loop adds after its Box
Walls == <<Wl(2,0), Wl(2,1), Wl(2,2), Wl(4,2), Wl(4,1), Wl(3,2)>>

\* get_actor(x, y) is not None, on a setup in progress
Placed(L, c) == \E i \in 1..Len(L) : <<L[i].x, L[i].y>> = c

\* the loop of the setup: draws are the cells random.randrange gives, n Boxes are still to place
RECURSIVE PlaceBoxes(_, _, _)
PlaceBoxes(L, draws, n) ==
    IF n = 0 \/ draws = <<>> THEN L
    ELSE IF Placed(L, Head(draws)) THEN PlaceBoxes(L, Tail(draws), n)
    ELSE PlaceBoxes(L \o <<B(Head(draws)[1], Head(draws)[2])>> \o Walls, Tail(draws), n - 1)

\* random.randrange(width), random.randrange(height): any cell of the grid
Cells == (0..(GridW - 1)) \X (0..(GridH - 1))

\* the sequences of random cells: one draw more than there are Boxes to place
Draws == [1..(NumBoxes + 1) -> Cells]

\* the loop has ended: NumBoxes Boxes have been placed
SetupDone(L) == Cardinality({i \in 1..Len(L) : L[i].k = "box"}) = NumBoxes

GameLayouts == {L \in {PlaceBoxes(GameStart, d, NumBoxes) : d \in Draws} : SetupDone(L)}

(***************************************************************************)
(* Further placements built with set_player and add_actor, the player      *)
(* first: one entity per cell, every entity inside the grid.               *)
(***************************************************************************)
Scenarios == {
    \* a chain of two Pushables in front of the agent
    <<P(0,0), B(1,0), S(2,0), Wl(0,2)>>,
    \* a Pushable against a Static-Blocker
    <<P(0,0), B(1,0), Wl(2,0), B(0,1), B(1,1)>>,
    \* a Trap-Pushable next to a roamer, the roamer added first
    <<P(0,1), M(2,1,2), S(1,1)>>,
    \* the same, the Trap-Pushable added first
    <<P(0,1), S(1,1), M(2,1,3)>>,
    \* two Trap-Pushables in front of a roamer added between them
    <<P(0,1), S(1,1), M(3,1,2), S(2,1)>>,
    \* a chain Box, sticky, roamer
    <<P(0,1), B(1,1), S(2,1), M(3,1,3)>>,
    \* a roamer in the east column, and one in the corner
    <<P(0,2), M(GridW-1,0,1), M(GridW-1,GridH-1,2)>>,
    \* a roamer heading for a Box; the agent next to the roamer
    <<P(0,0), M(1,1,2), B(2,2), B(3,0)>>,
    \* a roamer heading for the agent
    <<P(2,2), M(1,1,1), B(0,1)>>,
    \* a Trap-Pushable in the east column, below a roamer
    <<P(GridW-2,1), M(GridW-1,0,1), S(GridW-1,1)>>,
    \* a roamer enclosed by 8 Static-Blockers
    <<P(4,1), M(1,1,3)>> \o Ring,
    \* the same, with a second roamer heading for the agent
    <<P(4,1), M(3,0,1), M(1,1,2)>> \o Ring,
    \* a roamer enclosed by 7 Static-Blockers and a Trap-Pushable
    <<P(3,1), M(1,1,3), S(2,1)>> \o RingWithout(2,1),
    \* a roamer enclosed by 7 Static-Blockers and the agent
    <<P(2,2), M(1,1,1)>> \o RingWithout(2,2),
    \* two Trap-Pushables in front of a roamer with one free neighbouring cell,
    \* and a second roamer on its way to that cell
    <<P(0,1), M(0,2,1), M(3,1,2), S(2,1), S(1,1),
      Wl(3,0), Wl(2,2), Wl(4,1), Wl(3,2), Wl(4,2), Wl(4,0)>>
}

Layouts == GameLayouts \cup Scenarios

(***************************************************************************)
(* The world the operators below work on: the mutable fields of the Stage  *)
(* and of its Actors, with the traces of the current entity step.          *)
(***************************************************************************)
Snapshot ==
    [actors |-> actors, pos |-> pos, hd |-> hd, dcount |-> dcount, stuck |-> stuck,
     last_event |-> last_event, pdead |-> pdead]

\* the same, with the keys received since the player's last step
SnapshotWithKeys ==
    [actors |-> actors, pos |-> pos, hd |-> hd, dcount |-> dcount, stuck |-> stuck,
     last_event |-> last_event, pdead |-> pdead, recent |-> recent]

World ==
    [actors |-> actors, pos |-> pos, hd |-> hd, dcount |-> dcount, stuck |-> stuck,
     last_event |-> last_event, pdead |-> pdead, cdead |-> cdead, fault |-> fault,
     reqs |-> <<>>, traps |-> {}, depth |-> 0]

IsBox(a) == kind[a] \in {"box", "sticky"}
IsMonster(a) == kind[a] = "monster"
IsPlayer(a) == kind[a] = "player"

(***************************************************************************)
(* Stage                                                                   *)
(***************************************************************************)
is_in_bounds_x(x) == 0 <= x /\ x < GridW

is_in_bounds_y(y) == 0 <= y /\ y < GridH

is_in_bounds(x, y) == is_in_bounds_x(x) /\ is_in_bounds_y(y)

\* the first actor of the live list at (x,y), or None
get_actor(w, x, y) ==
    LET at == {i \in 1..Len(w.actors) : w.pos[w.actors[i]] = <<x, y>>}
    IN  IF at = {} THEN None
        ELSE w.actors[CHOOSE i \in at : \A j \in at : i <= j]

InList(w, a) == \E i \in 1..Len(w.actors) : w.actors[i] = a

\* list.remove: ValueError when the actor is not in the list
remove_actor(w, a) ==
    IF InList(w, a)
    THEN [w EXCEPT !.actors = SelectSeq(@, LAMBDA e : e # a)]
    ELSE [w EXCEPT !.fault = TRUE]

(***************************************************************************)
(* Actor.move and its overrides.  A move returns the world and the value   *)
(* the method returns ("True", "False", or "None" when it falls off its    *)
(* end).                                                                   *)
(***************************************************************************)
ActorMove(w, self, dx, dy) ==
    [w EXCEPT !.pos[self] = <<@[1] + dx, @[2] + dy>>]

Ret(w, r) == [w |-> w, ret |-> r]

\* F applied to the value of v, which is computed once
Once(v, F(_)) == CHOOSE out \in {F(x) : x \in {v}} : TRUE

RECURSIVE Move(_, _, _, _, _)

\* a Box that moves after forwarding the request without looking at the cell again
BoxMoveNoRecheck(w, self, other, dx, dy) ==
    LET new_x == w.pos[self][1] + dx
        new_y == w.pos[self][2] + dy
        a == get_actor(w, new_x, new_y)
    IN  IF is_in_bounds(new_x, new_y) /\ a = None
        THEN Ret(ActorMove(w, self, dx, dy), "True")
        ELSE IF a # None /\ IsBox(a)
        THEN Ret(ActorMove(Move(w, a, self, dx, dy).w, self, dx, dy), "True")
        ELSE Ret(w, "False")

\* Box.move once the neighbour has answered r: look at the cell again
BoxFollow(r0, self, new_x, new_y, dx, dy) ==
    Once(r0, LAMBDA r :
        IF r.w.fault THEN r
        ELSE IF get_actor(r.w, new_x, new_y) = None
        THEN Ret(ActorMove(r.w, self, dx, dy), "True")
        ELSE Ret(r.w, "False"))

\* a Box that asks its neighbour a second time when the first request did not free the cell
BoxMoveAskTwice(w, self, other, dx, dy) ==
    LET new_x == w.pos[self][1] + dx
        new_y == w.pos[self][2] + dy
        a == get_actor(w, new_x, new_y)
    IN  IF is_in_bounds(new_x, new_y) /\ a = None
        THEN Ret(ActorMove(w, self, dx, dy), "True")
        ELSE IF a # None /\ IsBox(a)
        THEN BoxFollow(Move(Move(w, a, self, dx, dy).w, a, self, dx, dy),
                       self, new_x, new_y, dx, dy)
        ELSE Ret(w, "False")

BoxMove(w, self, other, dx, dy) ==
    LET new_x == w.pos[self][1] + dx
        new_y == w.pos[self][2] + dy
        a == get_actor(w, new_x, new_y)
    IN  IF is_in_bounds(new_x, new_y) /\ a = None
        THEN Ret(ActorMove(w, self, dx, dy), "True")
        ELSE IF a # None /\ IsBox(a)
        THEN BoxFollow(Move(w, a, self, dx, dy), self, new_x, new_y, dx, dy)
        ELSE Ret(w, "False")

\* the actor that sticky.move marks after it has moved onto the roamer's cell
StickyMark(w, new_x, new_y) == get_actor(w, new_x, new_y)

StickyMove(w, self, other, dx, dy) ==
    LET new_x == w.pos[self][1] + dx
        new_y == w.pos[self][2] + dy
        a == get_actor(w, new_x, new_y)
    IN  IF a # None /\ IsMonster(a)
        THEN LET w1 == ActorMove(w, self, dx, dy)
                 m == StickyMark(w1, new_x, new_y)
             IN  Ret([w1 EXCEPT !.stuck[m] = TRUE,
                                !.traps = @ \cup {<<self, a>>}], "None")
        ELSE Ret(BoxMove(w, self, other, dx, dy).w, "None")

\* KeyboardPlayer.move once the pushed Box has answered r: look at the cell again
PlayerFollow(r0, self, new_x, new_y, dx, dy) ==
    Once(r0, LAMBDA r :
        IF r.w.fault THEN r
        ELSE IF get_actor(r.w, new_x, new_y) = None
        THEN Ret(ActorMove(r.w, self, dx, dy), "True")
        ELSE Ret(r.w, "False"))

\* a player that asks whatever occupies its destination to move
PlayerMovePushAny(w, self, other, dx, dy) ==
    LET new_x == w.pos[self][1] + dx
        new_y == w.pos[self][2] + dy
        a == get_actor(w, new_x, new_y)
    IN  IF is_in_bounds(new_x, new_y) /\ a = None
        THEN Ret(ActorMove(w, self, dx, dy), "True")
        ELSE IF a # None /\ IsMonster(a)
        THEN Ret(remove_actor([w EXCEPT !.pdead = TRUE], self), "True")
        ELSE IF a # None
        THEN PlayerFollow(Move(w, a, self, dx, dy), self, new_x, new_y, dx, dy)
        ELSE Ret(w, "False")

\* a player that follows a push without looking at the cell again
PlayerMoveNoRecheck(w, self, other, dx, dy) ==
    LET new_x == w.pos[self][1] + dx
        new_y == w.pos[self][2] + dy
        a == get_actor(w, new_x, new_y)
    IN  IF is_in_bounds(new_x, new_y) /\ a = None
        THEN Ret(ActorMove(w, self, dx, dy), "True")
        ELSE IF a # None /\ IsMonster(a)
        THEN Ret(remove_actor([w EXCEPT !.pdead = TRUE], self), "True")
        ELSE IF a # None /\ IsBox(a)
        THEN Ret(ActorMove(Move(w, a, self, dx, dy).w, self, dx, dy), "True")
        ELSE Ret(w, "False")

\* a player that is marked dead by a roamer's cell but stays in the live list
PlayerMoveNoRemove(w, self, other, dx, dy) ==
    LET new_x == w.pos[self][1] + dx
        new_y == w.pos[self][2] + dy
        a == get_actor(w, new_x, new_y)
    IN  IF is_in_bounds(new_x, new_y) /\ a = None
        THEN Ret(ActorMove(w, self, dx, dy), "True")
        ELSE IF a # None /\ IsMonster(a)
        THEN Ret([w EXCEPT !.pdead = TRUE], "True")
        ELSE IF a # None /\ IsBox(a)
        THEN PlayerFollow(Move(w, a, self, dx, dy), self, new_x, new_y, dx, dy)
        ELSE Ret(w, "False")

PlayerMove(w, self, other, dx, dy) ==
    LET new_x == w.pos[self][1] + dx
        new_y == w.pos[self][2] + dy
        a == get_actor(w, new_x, new_y)
    IN  IF is_in_bounds(new_x, new_y) /\ a = None
        THEN Ret(ActorMove(w, self, dx, dy), "True")
        ELSE IF a # None /\ IsMonster(a)
        THEN Ret(remove_actor([w EXCEPT !.pdead = TRUE], self), "True")
        ELSE IF a # None /\ IsBox(a)
        THEN PlayerFollow(Move(w, a, self, dx, dy), self, new_x, new_y, dx, dy)
        ELSE Ret(w, "False")

\* a roamer that is dead as soon as its 4 orthogonal neighbouring cells hold an actor
is_dead_orthogonal(w, self) ==
    LET x_val == w.pos[self][1]
        y_val == w.pos[self][2]
    IN  /\ get_actor(w, x_val + 1, y_val) # None
        /\ get_actor(w, x_val - 1, y_val) # None
        /\ get_actor(w, x_val, y_val + 1) # None
        /\ get_actor(w, x_val, y_val - 1) # None

\* Monster.is_dead: all 8 neighbouring cells hold an actor
is_dead(w, self) ==
    LET x_val == w.pos[self][1]
        y_val == w.pos[self][2]
    IN  /\ get_actor(w, x_val + 1, y_val) # None
        /\ get_actor(w, x_val - 1, y_val) # None
        /\ get_actor(w, x_val, y_val + 1) # None
        /\ get_actor(w, x_val, y_val - 1) # None
        /\ get_actor(w, x_val + 1, y_val + 1) # None
        /\ get_actor(w, x_val - 1, y_val - 1) # None
        /\ get_actor(w, x_val + 1, y_val - 1) # None
        /\ get_actor(w, x_val - 1, y_val + 1) # None

\* the side effect of Monster.is_dead when it finds the roamer enclosed
MarkDead(w, self) == IF is_dead(w, self) THEN [w EXCEPT !.cdead = TRUE] ELSE w

\* a roamer that bounces off the agent without removing it
MonsterBounceNoKill(w, self, dx, dy) ==
    LET new_x == w.pos[self][1] + w.hd[self][1]
        new_y == w.pos[self][2] + w.hd[self][2]
        actor == get_actor(w, new_x, new_y)
        bx == ~is_in_bounds_x(new_x) \/ actor # None
        by == ~is_in_bounds_y(new_y) \/ actor # None
        w2 == IF bx THEN [w EXCEPT !.hd[self][1] = -@] ELSE w
    IN  IF by
        THEN Ret([w2 EXCEPT !.hd[self][2] = -@], "False")
        ELSE Ret(ActorMove(w2, self, dx, dy), "True")

\* a roamer that reverses dx only when its destination is occupied
MonsterBounceXOnly(w, self, dx, dy) ==
    LET new_x == w.pos[self][1] + w.hd[self][1]
        new_y == w.pos[self][2] + w.hd[self][2]
        actor == get_actor(w, new_x, new_y)
        w1 == IF actor # None /\ IsPlayer(actor)
              THEN LET r == remove_actor(w, actor)
                   IN  IF r.fault THEN r ELSE [r EXCEPT !.pdead = TRUE]
              ELSE w
        bx == ~is_in_bounds_x(new_x) \/ actor # None
        by == ~is_in_bounds_y(new_y)
        w2 == IF bx THEN [w1 EXCEPT !.hd[self][1] = -@] ELSE w1
    IN  IF w1.fault THEN Ret(w1, "None")
        ELSE IF by
        THEN Ret([w2 EXCEPT !.hd[self][2] = -@], "False")
        ELSE IF actor # None THEN Ret(w2, "False")
        ELSE Ret(ActorMove(w2, self, dx, dy), "True")

\* a roamer that bounces off the edges only and walks onto occupied cells
MonsterBounceEdgesOnly(w, self, dx, dy) ==
    LET new_x == w.pos[self][1] + w.hd[self][1]
        new_y == w.pos[self][2] + w.hd[self][2]
        actor == get_actor(w, new_x, new_y)
        w1 == IF actor # None /\ IsPlayer(actor)
              THEN LET r == remove_actor(w, actor)
                   IN  IF r.fault THEN r ELSE [r EXCEPT !.pdead = TRUE]
              ELSE w
        bx == ~is_in_bounds_x(new_x)
        by == ~is_in_bounds_y(new_y)
        w2 == IF bx THEN [w1 EXCEPT !.hd[self][1] = -@] ELSE w1
    IN  IF w1.fault THEN Ret(w1, "None")
        ELSE IF by
        THEN Ret([w2 EXCEPT !.hd[self][2] = -@], "False")
        ELSE Ret(ActorMove(w2, self, dx, dy), "True")

\* the roamer's own attempt once it is not held by a sticky
MonsterBounceOrGo(w, self, dx, dy) ==
    LET new_x == w.pos[self][1] + w.hd[self][1]
        new_y == w.pos[self][2] + w.hd[self][2]
        actor == get_actor(w, new_x, new_y)
        w1 == IF actor # None /\ IsPlayer(actor)
              THEN LET r == remove_actor(w, actor)
                   IN  IF r.fault THEN r ELSE [r EXCEPT !.pdead = TRUE]
              ELSE w
        bx == ~is_in_bounds_x(new_x) \/ actor # None
        by == ~is_in_bounds_y(new_y) \/ actor # None
        w2 == IF bx THEN [w1 EXCEPT !.hd[self][1] = -@] ELSE w1
    IN  IF w1.fault THEN Ret(w1, "None")
        ELSE IF by
        THEN Ret([w2 EXCEPT !.hd[self][2] = -@], "False")
        ELSE Ret(ActorMove(w2, self, dx, dy), "True")

\* a roamer that does not look at inside_sticky
MonsterMoveIgnoreSticky(w, self, other, dx, dy) ==
    IF other # self THEN Ret(w, "False")
    ELSE Once(MarkDead(w, self), LAMBDA w1 : MonsterBounceOrGo(w1, self, dx, dy))

\* a roamer whose move removes it again when it finds itself enclosed
MonsterMoveRemovesDead(w, self, other, dx, dy) ==
    IF other # self THEN Ret(w, "False")
    ELSE IF is_dead(w, self) THEN Ret(remove_actor(MarkDead(w, self), self), "None")
    ELSE IF w.stuck[self] THEN Ret(w, "None")
    ELSE MonsterBounceOrGo(w, self, dx, dy)

MonsterMove(w, self, other, dx, dy) ==
    IF other # self THEN Ret(w, "False")
    ELSE IF w.stuck[self] THEN Ret(MarkDead(w, self), "None")
    ELSE Once(MarkDead(w, self), LAMBDA w1 : MonsterBounceOrGo(w1, self, dx, dy))

\* dynamic dispatch of an actor's move, with the trace of the request
Dispatch(w, self, other, dx, dy) ==
    CASE kind[self] = "player" -> PlayerMove(w, self, other, dx, dy)
      [] kind[self] = "monster" -> MonsterMove(w, self, other, dx, dy)
      [] kind[self] = "sticky" -> StickyMove(w, self, other, dx, dy)
      [] kind[self] = "box" -> BoxMove(w, self, other, dx, dy)
      [] OTHER -> Ret(ActorMove(w, self, dx, dy), "True")

\* the answer r to a request made in world w, with the request added to the trace
Traced(w, self, other, dx, dy, r) ==
    LET e == [rcv |-> self, req |-> other, dx |-> dx, dy |-> dy,
              occ |-> get_actor(w, w.pos[self][1] + dx, w.pos[self][2] + dy),
              ret |-> r.ret, from |-> w.pos[self], to |-> r.w.pos[self],
              depth |-> w.depth + 1]
    IN  Ret([r.w EXCEPT !.reqs = Append(@, e), !.depth = w.depth], r.ret)

\* the receiver's answer to the request q = <<world, receiver, requester, dx, dy>>
Answer(q) ==
    Once(Dispatch([q[1] EXCEPT !.depth = @ + 1], q[2], q[3], q[4], q[5]), LAMBDA r :
        Traced(q[1], q[2], q[3], q[4], q[5], r))

\* a call of move: the arguments are evaluated, then the receiver's method runs
Move(w, self, other, dx, dy) == Once(<<w, self, other, dx, dy>>, Answer)

(***************************************************************************)
(* The step hooks.                                                         *)
(***************************************************************************)
NoDir == <<>>

\* KeyboardPlayer.step: the direction of a key, NoDir for an unmapped key
KeyDir(k) ==
    CASE k = K_s -> <<0, 1>>
      [] k = K_w -> <<0, -1>>
      [] k = K_d -> <<1, 0>>
      [] k = K_a -> <<-1, 0>>
      [] k = K_q -> <<-1, -1>>
      [] k = K_e -> <<1, -1>>
      [] k = K_c -> <<1, 1>>
      [] k = K_z -> <<-1, 1>>
      [] OTHER -> NoDir

\* the buffer is cleared after the chain of key tests, unless the move raised
ClearEvent(w0) ==
    Once(w0, LAMBDA w : IF w.fault THEN w ELSE [w EXCEPT !.last_event = None])

PlayerStep(w, self) ==
    IF w.last_event = None THEN w
    ELSE LET d == KeyDir(w.last_event)
         IN  ClearEvent(IF d = NoDir THEN w ELSE Move(w, self, self, d[1], d[2]).w)

\* a counter that wraps one step late
DelayTickLate(w, self) == [w EXCEPT !.dcount[self] = (@ + 1) % (delay[self] + 1)]

\* Actor.delay: advance the counter; the roamer acts when it wraps to 0
DelayTick(w, self) == [w EXCEPT !.dcount[self] = (@ + 1) % delay[self]]

MonsterStep(w, self) ==
    Once(IF is_dead(w, self) THEN remove_actor(MarkDead(w, self), self) ELSE w, LAMBDA w1 :
        Once(DelayTick(w1, self), LAMBDA w2 :
            IF w1.fault THEN w1
            ELSE IF w2.dcount[self] # 0 /\ ~w2.stuck[self] THEN w2
            ELSE Move(w2, self, self, w2.hd[self][1], w2.hd[self][2]).w))

Step(w0, a) ==
    Once(w0, LAMBDA w :
    CASE kind[a] = "player" -> PlayerStep(w, a)
      [] kind[a] = "monster" -> MonsterStep(w, a)
      [] OTHER -> w)

\* a buffer that keeps the first event until it is consumed
handle_event_keep_first(old, event) == IF old # None THEN old ELSE event

\* KeyboardPlayer.handle_event
handle_event(old, event) == event

(***************************************************************************)
(* The state machine.                                                      *)
(***************************************************************************)
Init ==
    \E L \in Layouts :
        /\ setup = L
        /\ player = CHOOSE i \in 1..Len(L) : L[i].k = "player"
        /\ attr_fault = FALSE
        /\ kind = [i \in 1..Len(L) |-> L[i].k]
        /\ delay = [i \in 1..Len(L) |-> L[i].d]
        /\ actors = [i \in 1..Len(L) |-> i]
        /\ pos = [i \in 1..Len(L) |-> <<L[i].x, L[i].y>>]
        /\ hd = [i \in 1..Len(L) |-> IF L[i].k = "monster" THEN <<1, 1>> ELSE <<0, 0>>]
        /\ dcount = [i \in 1..Len(L) |-> 0]
        /\ stuck = [i \in 1..Len(L) |-> FALSE]
        /\ last_event = None
        /\ pdead = FALSE
        /\ cdead = FALSE
        /\ fault = FALSE
        /\ pc = "idle"
        /\ it = 0
        /\ tick = 0
        /\ recent = <<None, None>>
        /\ log = <<>>
        /\ tick0 = [actors |-> [i \in 1..Len(L) |-> i],
                    pos |-> [i \in 1..Len(L) |-> <<L[i].x, L[i].y>>],
                    hd |-> [i \in 1..Len(L) |-> IF L[i].k = "monster" THEN <<1, 1>> ELSE <<0, 0>>],
                    dcount |-> [i \in 1..Len(L) |-> 0],
                    stuck |-> [i \in 1..Len(L) |-> FALSE],
                    last_event |-> None, pdead |-> FALSE]
        /\ pre = [actors |-> [i \in 1..Len(L) |-> i],
                  pos |-> [i \in 1..Len(L) |-> <<L[i].x, L[i].y>>],
                  hd |-> [i \in 1..Len(L) |-> IF L[i].k = "monster" THEN <<1, 1>> ELSE <<0, 0>>],
                  dcount |-> [i \in 1..Len(L) |-> 0],
                  stuck |-> [i \in 1..Len(L) |-> FALSE],
                  last_event |-> None, pdead |-> FALSE, recent |-> <<None, None>>]
        /\ cur = None
        /\ reqs = <<>>
        /\ traps = {}

\* Stage.player_event, between two ticks of the main loop
HandleEvent(k) ==
    /\ pc = "idle"
    /\ ~fault
    /\ ~attr_fault
    /\ tick < MaxTicks
    /\ IF player = None
       THEN attr_fault' = TRUE /\ UNCHANGED <<last_event, recent>>
       ELSE /\ last_event' = handle_event(last_event, k)
            /\ recent' = <<recent[2], k>>
            /\ UNCHANGED attr_fault
    /\ UNCHANGED <<setup, player, kind, delay, actors, pos, hd, dcount, stuck, pdead, cdead, fault,
                   pc, it, tick, log, tick0, pre, cur, reqs, traps>>

\* Stage.step: the for loop starts
TickBegin ==
    /\ pc = "idle"
    /\ ~fault
    /\ ~attr_fault
    /\ tick < MaxTicks
    /\ pc' = "stepping"
    /\ it' = 0
    /\ tick' = tick + 1
    /\ log' = <<>>
    /\ tick0' = Snapshot
    /\ pre' = SnapshotWithKeys
    /\ cur' = None
    /\ reqs' = <<>>
    /\ traps' = {}
    /\ UNCHANGED <<setup, player, attr_fault, kind, delay, actors, pos, hd, dcount, stuck, last_event, pdead,
                   cdead, fault, recent>>

\* Stage.step: the loop takes the entity at the iterator's index and steps it
ActorStep ==
    /\ pc = "stepping"
    /\ ~fault
    /\ ~attr_fault
    /\ it < Len(actors)
    /\ \E a \in {actors[it + 1]} : \E w \in {Step(World, a)} :
           /\ actors' = w.actors
           /\ pos' = w.pos
           /\ hd' = w.hd
           /\ dcount' = w.dcount
           /\ stuck' = w.stuck
           /\ last_event' = w.last_event
           /\ pdead' = w.pdead
           /\ cdead' = w.cdead
           /\ fault' = w.fault
           /\ reqs' = w.reqs
           /\ traps' = w.traps
           /\ cur' = a
           /\ log' = Append(log, a)
           /\ recent' = IF IsPlayer(a) THEN <<None, None>> ELSE recent
    /\ it' = it + 1
    /\ pre' = SnapshotWithKeys
    /\ UNCHANGED <<setup, player, attr_fault, kind, delay, pc, tick, tick0>>

\* Stage.step: the iterator is exhausted
TickEnd ==
    /\ pc = "stepping"
    /\ ~fault
    /\ ~attr_fault
    /\ it >= Len(actors)
    /\ pc' = "idle"
    /\ UNCHANGED <<setup, player, attr_fault, kind, delay, actors, pos, hd, dcount, stuck, last_event, pdead,
                   cdead, fault, it, tick, recent, log, tick0, pre, cur, reqs, traps>>

Next ==
    \/ \E k \in Keys : HandleEvent(k)
    \/ TickBegin
    \/ ActorStep
    \/ TickEnd

Spec == Init /\ [][Next]_vars

(***************************************************************************)
(* Stage.remove_player.  Neither ww.py nor wwgame.py calls it, so it is no *)
(* step of the game (Next); StageSpec is the Stage with this method called *)
(* between two ticks as well.                                              *)
(***************************************************************************)
RemovePlayer ==
    /\ pc = "idle"
    /\ ~fault
    /\ ~attr_fault
    /\ tick < MaxTicks
    /\ \E w \in {remove_actor(World, player)} :
           /\ actors' = w.actors
           /\ fault' = w.fault
           /\ player' = IF w.fault THEN player ELSE None
    /\ UNCHANGED <<setup, attr_fault, kind, delay, pos, hd, dcount, stuck, last_event, pdead,
                   cdead, pc, it, tick, recent, log, tick0, pre, cur, reqs, traps>>

StageNext == Next \/ RemovePlayer

StageSpec == Init /\ [][StageNext]_vars

(***************************************************************************)
(* Vocabulary of the properties.  pre is the world before the last entity  *)
(* step, cur the entity that stepped, tick0 the world when the tick began. *)
(***************************************************************************)
Ids == DOMAIN kind
Player == CHOOSE i \in Ids : kind[i] = "player"
Live(w) == {w.actors[i] : i \in 1..Len(w.actors)}
AfterTick == pc = "idle" /\ tick > 0

\* the last entity step was the agent's, acting on a directional intent
PlayerTried ==
    /\ cur # None
    /\ IsPlayer(cur)
    /\ pre.last_event # None
    /\ KeyDir(pre.last_event) # NoDir
TryDir == KeyDir(pre.last_event)
Target == <<pre.pos[cur][1] + TryDir[1], pre.pos[cur][2] + TryDir[2]>>

Plus(c, d) == <<c[1] + d[1], c[2] + d[2]>>
Occ(w, c) == get_actor(w, c[1], c[2])
InGrid(c) == is_in_bounds(c[1], c[2])
FirstIsBox(w, c) == Occ(w, c) # None /\ IsBox(Occ(w, c))
PushablesAt(w, c) == {e \in Live(w) : IsBox(e) /\ w.pos[e] = c}
Sole(w, e) == \A f \in Live(w) : f # e => w.pos[f] # w.pos[e]

\* the chain of Pushables that are the occupants of consecutive cells from c on
RECURSIVE ChainLen(_, _, _)
ChainLen(w, c, d) == IF FirstIsBox(w, c) THEN 1 + ChainLen(w, Plus(c, d), d) ELSE 0
Chain(w, c, d) == {Occ(w, <<c[1] + k * d[1], c[2] + k * d[2]>>) : k \in 0..(ChainLen(w, c, d) - 1)}
ChainLast(w, c, d) ==
    Occ(w, <<c[1] + (ChainLen(w, c, d) - 1) * d[1], c[2] + (ChainLen(w, c, d) - 1) * d[2]>>)
ChainPast(w, c, d) == <<c[1] + ChainLen(w, c, d) * d[1], c[2] + ChainLen(w, c, d) * d[2]>>

\* the line of cells from c on that hold some Pushable, and the Pushables in it
RECURSIVE LineLen(_, _, _)
LineLen(w, c, d) == IF PushablesAt(w, c) # {} THEN 1 + LineLen(w, Plus(c, d), d) ELSE 0
Line(w, c, d) ==
    UNION {PushablesAt(w, <<c[1] + k * d[1], c[2] + k * d[2]>>) : k \in 0..(LineLen(w, c, d) - 1)}
LinePast(w, c, d) == <<c[1] + LineLen(w, c, d) * d[1], c[2] + LineLen(w, c, d) * d[2]>>

Advanced(es, d) == \A b \in es : pos[b] = Plus(pre.pos[b], d)
Unmoved(es) == \A b \in es : pos[b] = pre.pos[b]
Free(w, c) == InGrid(c) /\ Occ(w, c) = None

\* the world setup put every entity inside the grid
SetupInGrid == \A i \in 1..Len(setup) : InGrid(<<setup[i].x, setup[i].y>>)

\* the world setup put at most one entity in a cell
SetupOnePerCell ==
    \A i \in 1..Len(setup) : \A j \in 1..Len(setup) :
        i # j => <<setup[i].x, setup[i].y>> # <<setup[j].x, setup[j].y>>

(***************************************************************************)
(* C1: when the world setup put every entity inside the grid, then after   *)
(* every Stage.step every entity of the live list is inside the grid.  The *)
(* code breaks it: a roamer whose destination is outside on the x-axis     *)
(* only reverses dx and still relocates there.                             *)
(***************************************************************************)
C1_LiveInBounds ==
    SetupInGrid /\ AfterTick => \A e \in Live(Snapshot) : InGrid(pos[e])

(***************************************************************************)
(* C2 as claimed: a push on the chain of Pushables in front of the agent   *)
(* advances every Pushable of the chain iff the cell past the last one is  *)
(* in bounds and empty, and moves none otherwise.                          *)
(***************************************************************************)
C2_ChainIffFree ==
    (PlayerTried /\ FirstIsBox(pre, Target)) =>
        IF Free(pre, ChainPast(pre, Target, TryDir))
        THEN Advanced(Chain(pre, Target, TryDir), TryDir)
        ELSE Unmoved(Chain(pre, Target, TryDir))

\* the last Pushable of the chain is a sticky facing a roamer
TrapAhead(w, c, d) ==
    /\ kind[ChainLast(w, c, d)] = "sticky"
    /\ Occ(w, ChainPast(w, c, d)) # None
    /\ IsMonster(Occ(w, ChainPast(w, c, d)))

ChainSole(w, c, d) == \A b \in Chain(w, c, d) : Sole(w, b)

(***************************************************************************)
(* C2 amended: when every Pushable of the chain is alone in its cell, the  *)
(* whole chain advances by (dx,dy) iff the cell past the last Pushable is  *)
(* in bounds and empty, or the last Pushable is a sticky and the occupant  *)
(* of that cell is a roamer; otherwise no Pushable of the chain moves.     *)
(***************************************************************************)
C2_ChainAtomic ==
    (PlayerTried /\ FirstIsBox(pre, Target) /\ ChainSole(pre, Target, TryDir)) =>
        IF \/ Free(pre, ChainPast(pre, Target, TryDir))
           \/ TrapAhead(pre, Target, TryDir)
        THEN Advanced(Chain(pre, Target, TryDir), TryDir)
        ELSE Unmoved(Chain(pre, Target, TryDir))

\* a chain of two, a Box and a sticky facing a roamer, has advanced as a whole
C2_Witness ==
    /\ PlayerTried
    /\ FirstIsBox(pre, Target)
    /\ ChainSole(pre, Target, TryDir)
    /\ ChainLen(pre, Target, TryDir) >= 2
    /\ TrapAhead(pre, Target, TryDir)
    /\ Advanced(Chain(pre, Target, TryDir), TryDir)

(***************************************************************************)
(* C3 as claimed: the agent steps toward a cell that holds a Pushable; if  *)
(* the cell past the line of Pushables is in bounds and empty, the agent   *)
(* ends in the target cell and every Pushable is one cell further; if that *)
(* cell holds a Static-Blocker or is outside the grid, nothing moves and   *)
(* no error is raised.                                                     *)
(***************************************************************************)
BlockedAt(w, c) == IF Occ(w, c) = None THEN ~InGrid(c) ELSE kind[Occ(w, c)] = "wall"

C3_PushOrStay ==
    (PlayerTried /\ PushablesAt(pre, Target) # {}) =>
        /\ Free(pre, LinePast(pre, Target, TryDir)) =>
              /\ pos[cur] = Target
              /\ Advanced(Line(pre, Target, TryDir), TryDir)
        /\ BlockedAt(pre, LinePast(pre, Target, TryDir)) =>
              /\ pos[cur] = pre.pos[cur]
              /\ Unmoved(Line(pre, Target, TryDir))
              /\ ~fault

(***************************************************************************)
(* C3 amended: the same, for a target cell whose occupant is a Pushable    *)
(* and a chain in which every Pushable is alone in its cell; the chain is  *)
(* blocked when the cell past it holds a Static-Blocker, or is outside the *)
(* grid and empty.                                                         *)
(***************************************************************************)
C3_PushOrStaySole ==
    (PlayerTried /\ FirstIsBox(pre, Target) /\ ChainSole(pre, Target, TryDir)) =>
        /\ Free(pre, ChainPast(pre, Target, TryDir)) =>
              /\ pos[cur] = Target
              /\ Advanced(Chain(pre, Target, TryDir), TryDir)
              /\ InList(Snapshot, cur)
        /\ BlockedAt(pre, ChainPast(pre, Target, TryDir)) =>
              /\ pos[cur] = pre.pos[cur]
              /\ Unmoved(Chain(pre, Target, TryDir))
              /\ InList(Snapshot, cur)
              /\ ~fault

\* the agent has pushed a Pushable against a Static-Blocker, and nothing moved
C3_Witness ==
    /\ PlayerTried
    /\ FirstIsBox(pre, Target)
    /\ ChainSole(pre, Target, TryDir)
    /\ Occ(pre, ChainPast(pre, Target, TryDir)) # None
    /\ kind[Occ(pre, ChainPast(pre, Target, TryDir))] = "wall"
    /\ pos[cur] = pre.pos[cur]
    /\ tick >= 2

(***************************************************************************)
(* C4: in a roamer's step, a reversed heading component means that the     *)
(* roamer has not relocated.  The code breaks it: with the destination     *)
(* outside on the x-axis only, dx is reversed and the roamer relocates.    *)
(***************************************************************************)
C4_BounceStays ==
    (cur # None /\ IsMonster(cur) /\ hd[cur] # pre.hd[cur]) => pos[cur] = pre.pos[cur]

(***************************************************************************)
(* C5: a roamer whose 8 neighbouring cells are occupied when a tick begins *)
(* (and still are when it ends) is not in the live list after that tick.   *)
(* The code breaks it: the loop of Stage.step skips the roamer when an     *)
(* earlier entity is removed from the list before its turn.                *)
(***************************************************************************)
C5_EnclosedRemoved ==
    AfterTick =>
        \A m \in Live(tick0) :
            (IsMonster(m) /\ is_dead(tick0, m) /\ is_dead(Snapshot, m)) => ~InList(Snapshot, m)

(***************************************************************************)
(* C6: when sticky.move finds a live roamer at its destination, the sticky *)
(* ends on the roamer's cell and the roamer is ensnared, whatever the      *)
(* order of the two in the live list.  The code breaks it: the flag goes   *)
(* to the first actor of the cell, the sticky itself when it was added     *)
(* before the roamer.                                                      *)
(***************************************************************************)
C6_TrapEnsnares ==
    \A t \in traps : pos[t[1]] = pre.pos[t[2]] /\ stuck[t[2]]

(***************************************************************************)
(* C7: once a roamer is ensnared it stays ensnared and its position and    *)
(* heading never change; it leaves the live list only when it is enclosed. *)
(***************************************************************************)
C7_EnsnaredStays ==
    [][\A m \in Ids :
          (IsMonster(m) /\ stuck[m]) =>
              /\ stuck'[m]
              /\ pos'[m] = pos[m]
              /\ hd'[m] = hd[m]
              /\ (InList(Snapshot, m) /\ ~(\E i \in 1..Len(actors') : actors'[i] = m))
                     => is_dead(Snapshot, m)]_vars

\* the agent has pushed a sticky off the cell of an ensnared roamer, which stayed
C7_Witness ==
    /\ PlayerTried
    /\ \E m \in Live(Snapshot) : \E t \in Ids :
          /\ IsMonster(m)
          /\ pre.stuck[m]
          /\ stuck[m]
          /\ kind[t] = "sticky"
          /\ pre.pos[t] = pre.pos[m]
          /\ pos[t] # pos[m]
          /\ pos[m] = pre.pos[m]

(***************************************************************************)
(* C8 as claimed: when the agent steps toward a cell that holds a roamer,  *)
(* the agent does not relocate, leaves the live list and is marked dead,   *)
(* and no error is raised.                                                 *)
(***************************************************************************)
C8_RoamerCellKills ==
    (PlayerTried /\ \E m \in Live(pre) : IsMonster(m) /\ pre.pos[m] = Target) =>
        /\ pos[cur] = pre.pos[cur]
        /\ ~InList(Snapshot, cur)
        /\ pdead
        /\ ~fault

(***************************************************************************)
(* C8 amended: when the agent steps toward a cell whose occupant (the      *)
(* first live entity at that cell) is a roamer, the agent does not         *)
(* relocate, leaves the live list and is marked dead, and no error is      *)
(* raised; an agent marked dead is never in the live list again.           *)
(***************************************************************************)
C8_RoamerOccupantKills ==
    /\ (PlayerTried /\ Occ(pre, Target) # None /\ IsMonster(Occ(pre, Target))) =>
          /\ pos[cur] = pre.pos[cur]
          /\ ~InList(Snapshot, cur)
          /\ pdead
          /\ ~fault
    /\ pdead => ~InList(Snapshot, Player)

\* the agent has walked into a roamer
C8_Witness ==
    /\ PlayerTried
    /\ Occ(pre, Target) # None
    /\ IsMonster(Occ(pre, Target))
    /\ pdead
    /\ ~InList(Snapshot, Player)

(***************************************************************************)
(* C9: in a tick every entity that is still live when the tick ends has    *)
(* been stepped exactly once, nothing is stepped twice, and the steps run  *)
(* in insertion order.  The code breaks it: removing an entity from the    *)
(* list inside the loop makes the loop skip the entity that follows.       *)
(***************************************************************************)
Count(q, e) == Cardinality({i \in 1..Len(q) : q[i] = e})

C9_EachSteppedOnce ==
    AfterTick =>
        /\ \A e \in Live(Snapshot) : Count(log, e) = 1
        /\ \A e \in Ids : Count(log, e) <= 1
        /\ \A i, j \in 1..Len(log) : i < j => log[i] < log[j]

(***************************************************************************)
(* C10: the buffer holds the most recent key received since the agent's    *)
(* last step; the agent's step makes one move attempt, in the direction of *)
(* that key, when the key is mapped, and none otherwise; after the step    *)
(* the buffer is empty.                                                    *)
(***************************************************************************)
SelfReqs == SelectSeq(reqs, LAMBDA r : r.rcv = cur /\ r.req = cur)

C10_LastIntentOnce ==
    /\ last_event = recent[2]
    /\ (pc = "stepping" /\ cur # None /\ IsPlayer(cur)) =>
          /\ last_event = None
          /\ IF pre.recent[2] # None /\ KeyDir(pre.recent[2]) # NoDir
             THEN /\ Len(SelfReqs) = 1
                  /\ <<SelfReqs[1].dx, SelfReqs[1].dy>> = KeyDir(pre.recent[2])
             ELSE reqs = <<>>

\* two different directions were received; the agent moved by the second
C10_Witness ==
    /\ pc = "stepping"
    /\ cur # None
    /\ IsPlayer(cur)
    /\ pre.recent[1] # None
    /\ KeyDir(pre.recent[1]) # NoDir
    /\ KeyDir(pre.recent[2]) # NoDir
    /\ pre.recent[1] # pre.recent[2]
    /\ pos[cur] = Plus(pre.pos[cur], KeyDir(pre.recent[2]))

(***************************************************************************)
(* A single move-request, made on a placement: any entity is asked by any  *)
(* entity to move in one of the 8 directions of Actor.move.  The request   *)
(* is the last record of reqs.                                             *)
(***************************************************************************)
Dirs == {KeyDir(k) : k \in Keys} \ {NoDir}

Request(a, o, d) ==
    /\ pc = "idle"
    /\ tick = 0
    /\ cur = None
    /\ \E r \in {Move(World, a, o, d[1], d[2])} :
           /\ actors' = r.w.actors
           /\ pos' = r.w.pos
           /\ hd' = r.w.hd
           /\ dcount' = r.w.dcount
           /\ stuck' = r.w.stuck
           /\ last_event' = r.w.last_event
           /\ pdead' = r.w.pdead
           /\ cdead' = r.w.cdead
           /\ fault' = r.w.fault
           /\ reqs' = r.w.reqs
           /\ traps' = r.w.traps
    /\ cur' = a
    /\ pre' = SnapshotWithKeys
    /\ UNCHANGED <<setup, player, attr_fault, kind, delay, pc, it, tick, recent, log, tick0>>

MoveNext == \E a \in Ids : \E o \in Ids : \E d \in Dirs : Request(a, o, d)

MoveSpec == Init /\ [][MoveNext]_vars

\* the request that was made, once it has been answered
Asked == cur # None /\ reqs # <<>>
Top == reqs[Len(reqs)]

(***************************************************************************)
(* C11: a move-request to a Wall returns False and leaves the Wall where   *)
(* it is, whoever asks and in whatever direction.  The code breaks it:     *)
(* Wall inherits Actor.move, which relocates the Wall and returns True.    *)
(***************************************************************************)
C11_WallRefuses ==
    (Asked /\ kind[cur] = "wall") => (Top.ret = "False" /\ pos[cur] = pre.pos[cur])

\* the last entity step was a roamer's, not ensnared, with its counter wrapping to 0
RoamerTried ==
    /\ cur # None
    /\ IsMonster(cur)
    /\ InList(pre, cur)
    /\ ~pre.stuck[cur]
    /\ (pre.dcount[cur] + 1) % delay[cur] = 0
Dest == Plus(pre.pos[cur], pre.hd[cur])
Reversed(h) == <<-h[1], -h[2]>>

(***************************************************************************)
(* C12: when a roamer that is not ensnared makes its move attempt and the  *)
(* occupant of its destination is the agent, the agent leaves the live     *)
(* list and is marked dead, and the roamer reverses both components of its *)
(* heading and stays where it is.                                          *)
(***************************************************************************)
C12_AgentEaten ==
    (RoamerTried /\ Occ(pre, Dest) # None /\ IsPlayer(Occ(pre, Dest))) =>
        /\ ~InList(Snapshot, Player)
        /\ pdead
        /\ hd[cur] = Reversed(pre.hd[cur])
        /\ pos[cur] = pre.pos[cur]
        /\ ~fault

\* a roamer has found the agent, live until then, in its destination cell
C12_Witness ==
    /\ RoamerTried
    /\ Occ(pre, Dest) # None
    /\ IsPlayer(Occ(pre, Dest))
    /\ ~pre.pdead
    /\ pdead
    /\ pos[cur] = pre.pos[cur]

(***************************************************************************)
(* C13: in a move attempt of a roamer that is not ensnared, with d its     *)
(* position plus its heading, dx is reversed iff d.x is outside the grid   *)
(* or d is occupied, dy is reversed iff d.y is outside the grid or d is    *)
(* occupied, and when neither holds the roamer relocates to d with its     *)
(* heading unchanged.                                                      *)
(***************************************************************************)
BounceX == ~is_in_bounds_x(Dest[1]) \/ Occ(pre, Dest) # None
BounceY == ~is_in_bounds_y(Dest[2]) \/ Occ(pre, Dest) # None

C13_BounceRule ==
    RoamerTried =>
        /\ hd[cur][1] = IF BounceX THEN -pre.hd[cur][1] ELSE pre.hd[cur][1]
        /\ hd[cur][2] = IF BounceY THEN -pre.hd[cur][2] ELSE pre.hd[cur][2]
        /\ (~BounceX /\ ~BounceY) => (pos[cur] = Dest /\ hd[cur] = pre.hd[cur])

\* a roamer has bounced off an occupied cell inside the grid, after a relocation
C13_Witness ==
    /\ RoamerTried
    /\ InGrid(Dest)
    /\ Occ(pre, Dest) # None
    /\ ~IsPlayer(Occ(pre, Dest))
    /\ hd[cur] = Reversed(pre.hd[cur])
    /\ pos[cur] = pre.pos[cur]
    /\ tick >= 2

(***************************************************************************)
(* C14: in the step in which a roamer is found enclosed and removed from   *)
(* the live list, nothing else happens to it or by it: its delay counter,  *)
(* heading and position are unchanged and the agent is not killed.  The    *)
(* code breaks it: Monster.step goes on after remove_actor, so the counter *)
(* advances and the move attempt is made.                                  *)
(***************************************************************************)
C14_RemovedDoesNothing ==
    (cur # None /\ IsMonster(cur) /\ InList(pre, cur) /\ ~InList(Snapshot, cur)) =>
        /\ dcount[cur] = pre.dcount[cur]
        /\ hd[cur] = pre.hd[cur]
        /\ pos[cur] = pre.pos[cur]
        /\ pdead = pre.pdead

(***************************************************************************)
(* C15: the delay counter of a roamer stays in 0..delay-1 and advances by  *)
(* one modulo delay in each of its steps; a roamer that is not ensnared    *)
(* makes one move attempt in the steps in which the counter wraps to 0 and *)
(* none in the others, where its position and heading are unchanged; no    *)
(* step of another entity changes its position or heading.                 *)
(***************************************************************************)
C15_Throttle ==
    /\ \A m \in Ids : IsMonster(m) => (0 <= dcount[m] /\ dcount[m] < delay[m])
    /\ (cur # None /\ IsMonster(cur)) =>
          /\ dcount[cur] = (pre.dcount[cur] + 1) % delay[cur]
          /\ ~pre.stuck[cur] =>
                IF dcount[cur] = 0
                THEN Len(SelfReqs) = 1 /\ Len(reqs) = 1
                ELSE reqs = <<>> /\ pos[cur] = pre.pos[cur] /\ hd[cur] = pre.hd[cur]
    /\ cur # None =>
          \A m \in Ids : (IsMonster(m) /\ m # cur /\ ~pre.stuck[m]) =>
              (pos[m] = pre.pos[m] /\ hd[m] = pre.hd[m])

\* a roamer with delay 3 has stayed for two steps and relocated in its third
C15_Witness ==
    /\ cur # None
    /\ IsMonster(cur)
    /\ delay[cur] = 3
    /\ ~pre.stuck[cur]
    /\ pre.dcount[cur] = 2
    /\ dcount[cur] = 0
    /\ pos[cur] # pre.pos[cur]

(***************************************************************************)
(* C16: remove_actor is never called for an entity that is not in the live *)
(* list, so no tick fails with the ValueError of list.remove.              *)
(***************************************************************************)
C16_NoInvalidRemoval == ~fault

\* a roamer has removed itself and the agent in one step, without a fault
C16_Witness ==
    /\ cur # None
    /\ IsMonster(cur)
    /\ InList(pre, cur)
    /\ InList(pre, Player)
    /\ ~InList(Snapshot, cur)
    /\ ~InList(Snapshot, Player)
    /\ ~fault

(***************************************************************************)
(* The main loop goes on: a started loop of Stage.step takes its next      *)
(* iteration and returns when the iterator is exhausted.                   *)
(***************************************************************************)
LiveSpec == Spec /\ WF_vars(ActorStep) /\ WF_vars(TickEnd)

NumPushables == Cardinality({e \in Ids : IsBox(e)})

\* the requests of the last entity step: the entity's own move, then one request per
\* Pushable, each one cell further in the same direction
CascadeShape ==
    \A i \in 1..Len(reqs) :
        /\ reqs[i].depth >= 1
        /\ reqs[i].depth - 1 <= NumPushables
        /\ <<reqs[i].dx, reqs[i].dy>> = <<Top.dx, Top.dy>>
        /\ reqs[i].from = <<Top.from[1] + (reqs[i].depth - 1) * Top.dx,
                            Top.from[2] + (reqs[i].depth - 1) * Top.dy>>
        /\ IF reqs[i].depth = 1
           THEN i = Len(reqs) /\ reqs[i].rcv = cur /\ reqs[i].req = cur
           ELSE IsBox(reqs[i].rcv)
        /\ \A j \in 1..Len(reqs) : (j # i) => reqs[j].rcv # reqs[i].rcv

(***************************************************************************)
(* C17: the cascade of move-requests of an entity step has ended when the  *)
(* step returns; it goes depth-first along the direction of the push, asks *)
(* each Pushable at most once, and is never deeper than the number of      *)
(* Pushables; every started tick ends.                                     *)
(***************************************************************************)
C17_CascadeBounded ==
    /\ [](reqs # <<>> => CascadeShape)
    /\ [](pc = "stepping" => it <= Cardinality(Ids))
    /\ (pc = "stepping") ~> (pc = "idle")

\* a push went through two Pushables
C17_Witness ==
    /\ PlayerTried
    /\ \E i \in 1..Len(reqs) : reqs[i].depth = 3
    /\ Advanced(Chain(pre, Target, TryDir), TryDir)

\* the live entities of a cell
At(w, c) == {e \in Live(w) : w.pos[e] = c}
Shared(w, e) == Cardinality(At(w, w.pos[e])) > 1

(***************************************************************************)
(* C18 as claimed: when the world setup put at most one entity in a cell,  *)
(* a cell that holds more than one live entity holds a roamer, and every   *)
(* other live entity of that cell is a sticky.                             *)
(***************************************************************************)
C18_SharedHasRoamer ==
    SetupOnePerCell =>
    \A e \in Live(Snapshot) :
        Shared(Snapshot, e) =>
            /\ \E m \in At(Snapshot, pos[e]) : IsMonster(m)
            /\ \A f \in At(Snapshot, pos[e]) : IsMonster(f) \/ kind[f] = "sticky"
            /\ Cardinality({m \in At(Snapshot, pos[e]) : IsMonster(m)}) = 1

(***************************************************************************)
(* C18 amended: when the world setup put at most one entity in a cell, a   *)
(* cell that holds more than one live entity holds only stickies and at    *)
(* most one roamer (the roamer the stickies were pushed onto may have been *)
(* removed since, being enclosed); the agent, Walls and plain Boxes never  *)
(* share a cell with another live entity.                                  *)
(***************************************************************************)
C18_SharedOnlyTraps ==
    SetupOnePerCell =>
    \A e \in Live(Snapshot) :
        Shared(Snapshot, e) =>
            /\ \A f \in At(Snapshot, pos[e]) : IsMonster(f) \/ kind[f] = "sticky"
            /\ Cardinality({m \in At(Snapshot, pos[e]) : IsMonster(m)}) <= 1

\* two stickies are left on the cell of a roamer that was removed
C18_Witness ==
    \E e \in Live(Snapshot) : \E m \in Ids :
        /\ kind[e] = "sticky"
        /\ Shared(Snapshot, e)
        /\ IsMonster(m)
        /\ pos[m] = pos[e]
        /\ ~InList(Snapshot, m)
        /\ \A f \in At(Snapshot, pos[e]) : kind[f] = "sticky"

(***************************************************************************)
(* C19: a move-request to a Box or a sticky returns True exactly when the  *)
(* receiver has relocated by (dx,dy), and False exactly when it has not    *)
(* moved.  The code breaks it: sticky.move has no return statement and     *)
(* returns None whether the sticky has moved or not.                       *)
(***************************************************************************)
C19_ReturnTellsMove ==
    \A i \in 1..Len(reqs) :
        IsBox(reqs[i].rcv) =>
            /\ reqs[i].ret \in {"True", "False"}
            /\ reqs[i].ret = "True" <=>
                   reqs[i].to = <<reqs[i].from[1] + reqs[i].dx, reqs[i].from[2] + reqs[i].dy>>
            /\ reqs[i].ret = "False" <=> reqs[i].to = reqs[i].from

(***************************************************************************)
(* C20: no step changes the position of a Wall: the agent, a push chain, a *)
(* sticky and a roamer all stop at a cell whose occupant is a Wall.        *)
(***************************************************************************)
C20_WallsStay ==
    [][\A e \in Ids : kind[e] = "wall" => pos'[e] = pos[e]]_vars

\* the agent has stepped toward a Wall and a roamer has bounced off one; nothing moved
C20_Witness ==
    /\ PlayerTried
    /\ Occ(pre, Target) # None
    /\ kind[Occ(pre, Target)] = "wall"
    /\ pos[cur] = pre.pos[cur]
    /\ \A e \in Ids : kind[e] = "wall" => pos[e] = tick0.pos[e]

(***************************************************************************)
(* C21: during ticks the live list only shrinks, keeping its order, and    *)
(* only in two ways.  The agent leaves it in its own step when the cell it *)
(* steps into holds a roamer, or in the step of a roamer whose destination *)
(* is the agent's cell.  A roamer leaves it only in its own step, and only *)
(* when all 8 of its neighbouring cells hold a live entity at the start of *)
(* that step.  Walls, Boxes and stickies never leave it, and no entity     *)
(* enters it.                                                              *)
(***************************************************************************)
Kept(q, s) == SelectSeq(q, LAMBDA e : e \in s)

\* the entity whose step hook runs next
Stepping == IF pc = "stepping" /\ it < Len(actors) THEN actors[it + 1] ELSE None

Neighbours(c) ==
    {<<c[1] + i, c[2] + j>> : i \in {-1, 0, 1}, j \in {-1, 0, 1}} \ {c}

\* the agent is about to step into a cell that holds a live roamer
AgentStepsIntoRoamer ==
    /\ Stepping # None
    /\ IsPlayer(Stepping)
    /\ last_event # None
    /\ KeyDir(last_event) # NoDir
    /\ \E m \in Live(Snapshot) :
           IsMonster(m) /\ pos[m] = Plus(pos[Stepping], KeyDir(last_event))

\* the roamer about to step has the cell of the live agent e as its destination
RoamerHeadsFor(e) ==
    /\ Stepping # None
    /\ IsMonster(Stepping)
    /\ e \in Live(Snapshot)
    /\ Plus(pos[Stepping], hd[Stepping]) = pos[e]

\* the roamer e is about to step and all 8 cells around it hold a live entity
RoamerEnclosed(e) ==
    /\ Stepping = e
    /\ \A c \in Neighbours(pos[e]) : Occ(Snapshot, c) # None

C21_LiveOnlyShrinks ==
    [][/\ actors' = Kept(actors, {actors'[i] : i \in 1..Len(actors')})
       /\ \A e \in Live(Snapshot) :
              (\A i \in 1..Len(actors') : actors'[i] # e) =>
                  \/ IsPlayer(e) /\ (AgentStepsIntoRoamer \/ RoamerHeadsFor(e))
                  \/ IsMonster(e) /\ RoamerEnclosed(e)]_vars

\* the agent has been removed by a roamer that is still live, an enclosed roamer has
\* been removed, and every Wall, Box and sticky is still in the live list
C21_Witness ==
    /\ pdead
    /\ ~InList(Snapshot, Player)
    /\ \E m \in Ids : IsMonster(m) /\ ~InList(Snapshot, m)
    /\ \E m \in Ids : IsMonster(m) /\ InList(Snapshot, m)
    /\ \A e \in Ids : ~IsPlayer(e) /\ ~IsMonster(e) => InList(Snapshot, e)

====
